---- MODULE Spec2Model ----
(***************************************************************************)
(* A model of js/plugins/N_TitleMap.js: the plugin that replaces the title *)
(* scene of the engine by a map scene.  The plugin is a set of overrides   *)
(* on engine classes; the engine calls it makes are modelled next to it.   *)
(***************************************************************************)
EXTENDS Integers, Sequences, FiniteSets, TLC

VARIABLES
    pluginParams,   \* PluginManager.parameters("N_TitleMap").mapId, as the engine stores it
    parameters,     \* parameters.mapId of the plugin
    titleProto,     \* Scene_Title_old.prototype
    mapProto,       \* Scene_TitleMap.prototype (the class the global Scene_Title names)
    scene,          \* class of the current scene
    phase,          \* "boot", or the lifecycle position of the current scene
    nextScene,      \* SceneManager._nextScene ("none" when no change is pending)
    sceneStack,     \* SceneManager._stack
    win,            \* the scene's window layers and its command window
    gameMap,        \* $gameMap: a reference into objs
    objs,           \* the Game_Map objects
    gameSwitches,   \* $gameSwitches
    gameVariables,  \* $gameVariables
    gameScreen,     \* $gameScreen (its weather)
    gamePlayer,     \* $gamePlayer (its reserved transfer)
    dataMap,        \* $dataMap
    audio,          \* AudioManager: the BGM and BGS last requested
    savefile,       \* the save file Scene_Load read last
    handler,        \* the handler that ran last
    calls,          \* the calls that handler made, in order
    eventCommand    \* the event command the map interpreter ran in that handler

vars == <<pluginParams, parameters, titleProto, mapProto, scene, phase, nextScene,
          sceneStack, win, gameMap, objs, gameSwitches, gameVariables, gameScreen,
          gamePlayer, dataMap, audio, savefile, handler, calls, eventCommand>>

(***************************************************************************)
(* Bounds                                                                  *)
(***************************************************************************)
MaxParamLen == 3

MaxValue == 1

MaxCamera == 2

(***************************************************************************)
(* JavaScript values: undefined, strings (sequences of characters) and     *)
(* numbers (NaN, or a signed decimal num/den with den a power of ten).     *)
(***************************************************************************)
JsUndefined == [type |-> "undefined", str |-> <<>>, nan |-> FALSE, neg |-> FALSE, num |-> 0, den |-> 1]

JsString(s) == [type |-> "string", str |-> s, nan |-> FALSE, neg |-> FALSE, num |-> 0, den |-> 1]

JsNumber(neg, num, den) == [type |-> "number", str |-> <<>>, nan |-> FALSE, neg |-> neg, num |-> num, den |-> den]

JsNaN == [type |-> "number", str |-> <<>>, nan |-> TRUE, neg |-> FALSE, num |-> 0, den |-> 1]

JsInt(n) == JsNumber(FALSE, n, 1)

Digits == {"0", "1", "2", "3", "4", "5", "6", "7", "8", "9"}

DigitVal(c) ==
    CASE c = "0" -> 0 [] c = "1" -> 1 [] c = "2" -> 2 [] c = "3" -> 3 [] c = "4" -> 4
      [] c = "5" -> 5 [] c = "6" -> 6 [] c = "7" -> 7 [] c = "8" -> 8 [] c = "9" -> 9

RECURSIVE DigitsVal(_)
DigitsVal(s) ==
    IF s = <<>> THEN 0
    ELSE 10 * DigitsVal(SubSeq(s, 1, Len(s) - 1)) + DigitVal(s[Len(s)])

RECURSIVE Pow10(_)
Pow10(k) == IF k = 0 THEN 1 ELSE 10 * Pow10(k - 1)

RECURSIVE TrimLeft(_)
TrimLeft(s) == IF s # <<>> /\ Head(s) = " " THEN TrimLeft(Tail(s)) ELSE s

RECURSIVE TrimRight(_)
TrimRight(s) ==
    IF s # <<>> /\ s[Len(s)] = " " THEN TrimRight(SubSeq(s, 1, Len(s) - 1)) ELSE s

\* The unsigned decimal literal of StringToNumber: digits [. digits] or . digits.
StrUnsignedDecimal(neg, body) ==
    LET dots == {i \in 1..Len(body) : body[i] = "."}
        bad  == {i \in 1..Len(body) : body[i] \notin Digits \cup {"."}}
    IN  IF bad # {} \/ Cardinality(dots) > 1 THEN JsNaN
        ELSE LET dot   == IF dots = {} THEN Len(body) + 1 ELSE CHOOSE i \in dots : TRUE
                 whole == SubSeq(body, 1, dot - 1)
                 frac  == SubSeq(body, dot + 1, Len(body))
             IN  IF whole = <<>> /\ frac = <<>> THEN JsNaN
                 ELSE JsNumber(neg, DigitsVal(whole \o frac), Pow10(Len(frac)))

\* Number(v) of JavaScript on undefined, strings and numbers.
Number(v) ==
    IF v.type = "undefined" THEN JsNaN
    ELSE IF v.type = "number" THEN v
    ELSE LET t == TrimRight(TrimLeft(v.str))
         IN  IF t = <<>> THEN JsInt(0)
             ELSE IF Head(t) = "-" THEN StrUnsignedDecimal(TRUE, Tail(t))
             ELSE IF Head(t) = "+" THEN StrUnsignedDecimal(FALSE, Tail(t))
             ELSE StrUnsignedDecimal(FALSE, t)

\* ToBoolean of a number: NaN, +0 and -0 are falsy.
Truthy(n) == ~n.nan /\ n.num # 0

\* parameters.mapId = Number(parameters.mapId) || 1
EffectiveMapId(raw) ==
    LET n == Number(raw) IN IF Truthy(n) THEN n ELSE JsInt(1)

IsPositiveInteger(n) ==
    n.type = "number" /\ ~n.nan /\ ~n.neg /\ n.num > 0 /\ n.num % n.den = 0

(***************************************************************************)
(* Plugin parameters the engine can hand over: a missing entry or any text *)
(* of at most MaxParamLen characters (plugins.js can be edited by hand).   *)
(***************************************************************************)
ParamChars == {"0", "1", "2", "-", ".", " ", "a"}

RECURSIVE SeqsUpTo(_, _)
SeqsUpTo(S, n) ==
    IF n = 0 THEN {<<>>}
    ELSE LET shorter == SeqsUpTo(S, n - 1)
         IN  shorter \cup {Append(s, c) : s \in shorter, c \in S}

AllParams == {JsUndefined} \cup {JsString(s) : s \in SeqsUpTo(ParamChars, MaxParamLen)}

(***************************************************************************)
(* The state as one record, so that a handler is a function of it.         *)
(***************************************************************************)
World ==
    [pluginParams |-> pluginParams, parameters |-> parameters,
     titleProto |-> titleProto, mapProto |-> mapProto, scene |-> scene,
     phase |-> phase, nextScene |-> nextScene, sceneStack |-> sceneStack,
     win |-> win, gameMap |-> gameMap, objs |-> objs,
     gameSwitches |-> gameSwitches, gameVariables |-> gameVariables,
     gameScreen |-> gameScreen, gamePlayer |-> gamePlayer, dataMap |-> dataMap,
     audio |-> audio, savefile |-> savefile, handler |-> handler,
     calls |-> calls, eventCommand |-> eventCommand]

\* A Game_Map object nothing refers to any more is collected: once a
\* handler has returned, only $gameMap refers to a map.
Collect(w) == [r \in DOMAIN w.objs |-> IF r = w.gameMap THEN w.objs[r] ELSE
                [_mapId |-> 0, _displayX |-> 0, _displayY |-> 0, _parallaxX |-> 0, _parallaxY |-> 0]]

Commit(w) ==
    /\ pluginParams' = w.pluginParams /\ parameters' = w.parameters
    /\ titleProto' = w.titleProto /\ mapProto' = w.mapProto
    /\ scene' = w.scene /\ phase' = w.phase /\ nextScene' = w.nextScene
    /\ sceneStack' = w.sceneStack /\ win' = w.win
    /\ gameMap' = w.gameMap /\ objs' = Collect(w)
    /\ gameSwitches' = w.gameSwitches /\ gameVariables' = w.gameVariables
    /\ gameScreen' = w.gameScreen /\ gamePlayer' = w.gamePlayer
    /\ dataMap' = w.dataMap /\ audio' = w.audio /\ savefile' = w.savefile
    /\ handler' = w.handler /\ calls' = w.calls
    /\ eventCommand' = w.eventCommand

\* A handler starts: its name, and an empty list of calls.
Enter(w, name) == [w EXCEPT !.handler = name, !.calls = <<>>, !.eventCommand = "none"]

Call(w, name) == [w EXCEPT !.calls = Append(@, name)]

(***************************************************************************)
(* Property names are sequences of characters, so that startsWith is a     *)
(* test on the text of the name.                                           *)
(***************************************************************************)
N_create == <<"c", "r", "e", "a", "t", "e">>

N_start == <<"s", "t", "a", "r", "t">>

N_drawGameTitle == <<"d", "r", "a", "w", "G", "a", "m", "e", "T", "i", "t", "l", "e">>

N_playTitleMusic == <<"p", "l", "a", "y", "T", "i", "t", "l", "e", "M", "u", "s", "i", "c">>

N_createCommandWindow == <<"c", "r", "e", "a", "t", "e", "C", "o", "m", "m", "a", "n", "d", "W", "i", "n", "d", "o", "w">>

N_createAllWindows == <<"c", "r", "e", "a", "t", "e", "A", "l", "l", "W", "i", "n", "d", "o", "w", "s">>

N_onMapLoaded == <<"o", "n", "M", "a", "p", "L", "o", "a", "d", "e", "d">>

N_update == <<"u", "p", "d", "a", "t", "e">>

N_commandWindowRect == <<"c", "o", "m", "m", "a", "n", "d", "W", "i", "n", "d", "o", "w", "R", "e", "c", "t">>

N_commandNewGame == <<"c", "o", "m", "m", "a", "n", "d", "N", "e", "w", "G", "a", "m", "e">>

N_commandContinue == <<"c", "o", "m", "m", "a", "n", "d", "C", "o", "n", "t", "i", "n", "u", "e">>

N_commandOptions == <<"c", "o", "m", "m", "a", "n", "d", "O", "p", "t", "i", "o", "n", "s">>

N_commandCredits == <<"c", "o", "m", "m", "a", "n", "d", "C", "r", "e", "d", "i", "t", "s">>

N_commandHidden == <<"c", "o", "m", "m", "a", "n", "d", "H", "i", "d", "d", "e", "n">>

N_createCommandCredits == <<"c", "r", "e", "a", "t", "e", "C", "o", "m", "m", "a", "n", "d", "C", "r", "e", "d", "i", "t", "s">>

N_comm == <<"c", "o", "m", "m">>

\* String.prototype.startsWith
startsWith(name, prefix) ==
    Len(name) >= Len(prefix) /\ SubSeq(name, 1, Len(prefix)) = prefix

(***************************************************************************)
(* A prototype object: its own properties (name -> function) and which of  *)
(* them are enumerable.                                                    *)
(***************************************************************************)
MakeProto(pairs, enumerable) ==
    [fn   |-> [n \in {p[1] : p \in pairs} |-> (CHOOSE p \in pairs : p[1] = n)[2]],
     enum |-> enumerable]

\* obj[name] = f: an assignment creates an enumerable property, and keeps
\* the attributes of a property that exists.
SetProperty(proto, name, f) ==
    [fn   |-> [n \in DOMAIN proto.fn \cup {name} |-> IF n = name THEN f ELSE proto.fn[n]],
     enum |-> IF name \in DOMAIN proto.fn THEN proto.enum ELSE proto.enum \cup {name}]

\* Object.keys: the own enumerable property names.
ObjectKeys(proto) == DOMAIN proto.fn \cap proto.enum

\* A method looked up on an instance of the title-map class; "inherited"
\* stands for whatever the Scene_Map chain gives for a name the class
\* prototype does not own.
Method(proto, name) == IF name \in DOMAIN proto.fn THEN proto.fn[name] ELSE "inherited"

\* Scene_Title.prototype of the engine: methods assigned one by one, all
\* enumerable.
HostTitlePairs ==
    {<<N_create, "Scene_Title.create">>, <<N_start, "Scene_Title.start">>,
     <<N_drawGameTitle, "Scene_Title.drawGameTitle">>,
     <<N_playTitleMusic, "Scene_Title.playTitleMusic">>,
     <<N_createCommandWindow, "Scene_Title.createCommandWindow">>,
     <<N_commandWindowRect, "Scene_Title.commandWindowRect">>,
     <<N_commandNewGame, "Scene_Title.commandNewGame">>,
     <<N_commandContinue, "Scene_Title.commandContinue">>,
     <<N_commandOptions, "Scene_Title.commandOptions">>}

\* What plugins placed before this one may have added to Scene_Title.prototype:
\* <<name, function, enumerable>>.
OtherPluginProperties ==
    {<<N_commandCredits, "Credits.commandCredits", TRUE>>,
     <<N_commandHidden, "Hidden.commandHidden", FALSE>>,
     <<N_createCommandCredits, "Credits.createCommandCredits", TRUE>>,
     <<N_comm, "Comm.comm", TRUE>>}

HostTitleProto(extra) ==
    MakeProto(HostTitlePairs \cup {<<e[1], e[2]>> : e \in extra},
              {p[1] : p \in HostTitlePairs} \cup {e[1] : e \in {x \in extra : x[3]}})

\* The prototype of class Scene_TitleMap (lines 101-178): class methods are
\* not enumerable.
ClassProto ==
    MakeProto({<<N_create, "Scene_TitleMap.create">>,
               <<N_createCommandWindow, "Scene_TitleMap.createCommandWindow">>,
               <<N_createAllWindows, "Scene_TitleMap.createAllWindows">>,
               <<N_drawGameTitle, "Scene_TitleMap.drawGameTitle">>,
               <<N_onMapLoaded, "Scene_TitleMap.onMapLoaded">>,
               <<N_start, "Scene_TitleMap.start">>,
               <<N_update, "Scene_TitleMap.update">>}, {})

NoProto == MakeProto({}, {})

\* Lines 117-121: copy every own enumerable property of the old title
\* prototype whose name starts with "command" onto the class prototype.
RECURSIVE CopyAll(_, _, _)
CopyAll(from, to, names) ==
    IF names = {} THEN to
    ELSE LET n == CHOOSE x \in names : TRUE
         IN  CopyAll(from, SetProperty(to, n, from.fn[n]), names \ {n})

\* The copy without the filter on the name.
CopyCommands_NoFilter(from, to) == CopyAll(from, to, ObjectKeys(from))

CopyCommands(from, to) ==
    CopyAll(from, to, {n \in ObjectKeys(from) : startsWith(n, <<"c","o","m","m","a","n","d">>)})

(***************************************************************************)
(* The project's data: two maps and the system settings.  Lengths on the   *)
(* map (display positions, the centre) are counted in half tiles, so that  *)
(* width / 2 of an odd width is a whole number.                            *)
(***************************************************************************)
MapIds == {1, 2}

DataMapFiles ==
    [id \in MapIds |->
        IF id = 1
        THEN [id |-> 1, width |-> 21, height |-> 16, autoplayBgm |-> TRUE, bgm |-> "Field",
              autoplayBgs |-> FALSE, bgs |-> ""]
        ELSE [id |-> 2, width |-> 20, height |-> 13, autoplayBgm |-> FALSE, bgm |-> "",
              autoplayBgs |-> TRUE, bgs |-> "Wind"]]

NoDataMap ==
    [id |-> 0, width |-> 0, height |-> 0, autoplayBgm |-> FALSE, bgm |-> "",
     autoplayBgs |-> FALSE, bgs |-> ""]

DataSystem == [startMapId |-> 2, titleBgm |-> "Title"]

\* Graphics.width / tileWidth and Graphics.height / tileHeight of the engine.
ScreenTileX == 816 \div 48

ScreenTileY == 624 \div 48

\* The integer a map id stands for (a positive whole number in every state
\* the scene model starts from).
MapIdOf(n) == n.num \div n.den

(***************************************************************************)
(* Game objects                                                            *)
(***************************************************************************)
Refs == {1, 2}

\* Where a new Game_Map object is put: the reference $gameMap does not hold.
NewRef(w) == CHOOSE r \in Refs : r # w.gameMap

NewGameMap ==
    [_mapId |-> 0, _displayX |-> 0, _displayY |-> 0, _parallaxX |-> 0, _parallaxY |-> 0]

NewGameScreen ==
    [_weatherType |-> "none", _weatherPower |-> 0, _weatherPowerTarget |-> 0,
     _weatherDuration |-> 0]

NewGamePlayer == [_transferring |-> FALSE, _newMapId |-> 0]

SwitchIds == {1}

VariableIds == {1}

NewGameSwitches == [i \in SwitchIds |-> FALSE]

NewGameVariables == [i \in VariableIds |-> 0]

NoSavefile ==
    [exists |-> FALSE, switches |-> NewGameSwitches, variables |-> NewGameVariables,
     screen |-> NewGameScreen, map |-> NewGameMap, player |-> NewGamePlayer, bgm |-> ""]

\* The weather a running game can have: none, steady rain, rain that is
\* setting in.
WeatherStates ==
    {NewGameScreen,
     [_weatherType |-> "rain", _weatherPower |-> 9, _weatherPowerTarget |-> 9, _weatherDuration |-> 0],
     [_weatherType |-> "rain", _weatherPower |-> 0, _weatherPowerTarget |-> 9, _weatherDuration |-> 1]}

\* The save files that can be on disk: a game saved on either map, with any
\* switches, variables and weather.
Savefiles ==
    {[exists |-> TRUE, switches |-> sw, variables |-> va, screen |-> sc,
      map |-> [_mapId |-> m, _displayX |-> d, _displayY |-> 0, _parallaxX |-> d, _parallaxY |-> 0],
      player |-> NewGamePlayer, bgm |-> DataMapFiles[m].bgm] :
        sw \in [SwitchIds -> BOOLEAN], va \in [VariableIds -> 0..MaxValue],
        sc \in WeatherStates, m \in MapIds, d \in {0, 2}}

Clamp(x, lo, hi) == IF x < lo THEN lo ELSE IF x > hi THEN hi ELSE x

DataManager_loadMapData(w, id) == [w EXCEPT !.dataMap = DataMapFiles[id]]

DataManager_createGameObjects(w) ==
    LET r == NewRef(w)
    IN  [w EXCEPT !.gameMap = r, !.objs[r] = NewGameMap,
                  !.gameSwitches = NewGameSwitches, !.gameVariables = NewGameVariables,
                  !.gameScreen = NewGameScreen, !.gamePlayer = NewGamePlayer]

Game_Player_reserveTransfer(w, id) ==
    [w EXCEPT !.gamePlayer = [_transferring |-> TRUE, _newMapId |-> id]]

\* createGameObjects, then the transfer to the start position is reserved.
DataManager_setupNewGame(w) ==
    Game_Player_reserveTransfer(DataManager_createGameObjects(w), DataSystem.startMapId)

Game_Map_setup(w, id) ==
    [w EXCEPT !.objs[w.gameMap] =
        [_mapId |-> id, _displayX |-> 0, _displayY |-> 0, _parallaxX |-> 0, _parallaxY |-> 0]]

Game_Map_autoplay(w) ==
    [w EXCEPT !.audio.bgm = IF w.dataMap.autoplayBgm THEN w.dataMap.bgm ELSE @,
              !.audio.bgs = IF w.dataMap.autoplayBgs THEN w.dataMap.bgs ELSE @]

\* setDisplayPos of a map that does not loop; x2, y2 in half tiles.
Game_Map_setDisplayPos(w, x2, y2) ==
    LET endX2 == 2 * (w.dataMap.width - ScreenTileX)
        endY2 == 2 * (w.dataMap.height - ScreenTileY)
        dx    == IF endX2 < 0 THEN endX2 \div 2 ELSE Clamp(x2, 0, endX2)
        dy    == IF endY2 < 0 THEN endY2 \div 2 ELSE Clamp(y2, 0, endY2)
    IN  [w EXCEPT !.objs[w.gameMap]._displayX = dx, !.objs[w.gameMap]._parallaxX = dx,
                  !.objs[w.gameMap]._displayY = dy, !.objs[w.gameMap]._parallaxY = dy]

\* center(x, y): the display position that puts (x, y) in the middle of the screen.
Game_Player_center(w, x2, y2) ==
    Game_Map_setDisplayPos(w, x2 - (ScreenTileX - 1), y2 - (ScreenTileY - 1))

\* scrollRight(distance), in half tiles.
Game_Map_scrollRight(w, distance2) ==
    LET endX2 == 2 * (w.dataMap.width - ScreenTileX)
        m     == w.objs[w.gameMap]
        dx    == IF m._displayX + distance2 < endX2 THEN m._displayX + distance2 ELSE endX2
    IN  IF w.dataMap.width >= ScreenTileX
        THEN [w EXCEPT !.objs[w.gameMap]._displayX = dx,
                       !.objs[w.gameMap]._parallaxX = m._parallaxX + (dx - m._displayX)]
        ELSE w

Game_Screen_changeWeather(w, type, power, duration) ==
    LET target == IF type = "none" THEN 0 ELSE power
    IN  [w EXCEPT !.gameScreen =
            [_weatherType |-> IF type # "none" \/ duration = 0 THEN type ELSE @._weatherType,
             _weatherPowerTarget |-> target,
             _weatherDuration |-> duration,
             _weatherPower |-> IF duration = 0 THEN target ELSE @._weatherPower]]

\* Game_Screen.update: the weather moves towards its target.
Game_Screen_update(w) ==
    LET s == w.gameScreen
        d == s._weatherDuration
    IN  IF d > 0
        THEN [w EXCEPT !.gameScreen =
                [_weatherType |-> IF d = 1 /\ s._weatherPowerTarget = 0 THEN "none" ELSE s._weatherType,
                 _weatherPowerTarget |-> s._weatherPowerTarget,
                 _weatherDuration |-> d - 1,
                 _weatherPower |-> (s._weatherPower * (d - 1) + s._weatherPowerTarget) \div d]]
        ELSE w

SceneManager_goto(w, cls) == [w EXCEPT !.nextScene = cls]

SceneManager_push(w, cls) ==
    SceneManager_goto([w EXCEPT !.sceneStack = Append(@, w.scene)], cls)

(***************************************************************************)
(* The scene object: its window layers (children of the scene), the layer  *)
(* this._windowLayer names, the windows each layer holds, and the command  *)
(* window.                                                                 *)
(***************************************************************************)
Layers == {1, 2}

NewScene ==
    [children |-> {}, windowLayer |-> 0, layersMade |-> 0,
     layerWindows |-> [l \in Layers |-> {}],
     commandOpen |-> FALSE, newGameHandler |-> "none",
     transfer |-> FALSE, fading |-> FALSE]

\* Scene_Base.createWindowLayer: a new layer, named by this._windowLayer
\* and added to the scene.
Scene_Base_createWindowLayer(w) ==
    LET l == w.win.layersMade + 1
    IN  [w EXCEPT !.win.layersMade = l, !.win.windowLayer = l,
                  !.win.children = @ \cup {l}]

\* Scene_Base.addWindow: addChild on the current layer; a child that has a
\* parent leaves it first.
Scene_Base_addWindow(w, window) ==
    [w EXCEPT !.win.layerWindows =
        [l \in Layers |-> IF l = w.win.windowLayer THEN @[l] \cup {window}
                          ELSE @[l] \ {window}]]

Scene_removeChild(w, l) == [w EXCEPT !.win.children = @ \ {l}]

\* Scene_Title.prototype.createCommandWindow, called on the title-map scene:
\* the handlers are the scene's own methods of that name.
Scene_Title_createCommandWindow(w) ==
    Scene_Base_addWindow(
        [w EXCEPT !.win.commandOpen = FALSE,
                  !.win.newGameHandler = Method(w.mapProto, N_commandNewGame)],
        "command")

\* Scene_Map.prototype.createAllWindows
Scene_Map_createAllWindows(w) ==
    Scene_Base_addWindow(Scene_Base_addWindow(w, "mapName"), "message")

\* Scene_Title.prototype.playTitleMusic
Scene_Title_playTitleMusic(w) ==
    [w EXCEPT !.audio = [bgm |-> DataSystem.titleBgm, bgs |-> ""]]

\* Scene_Map.prototype.start
Scene_Map_start(w) == [w EXCEPT !.sceneStack = <<>>]

(***************************************************************************)
(* Scene_TitleMap (lines 101-178)                                          *)
(***************************************************************************)
\* createCommandWindow copying every enumerable property.
createCommandWindow_CopiesAll(w) ==
    LET w1 == [w EXCEPT !.mapProto = CopyCommands_NoFilter(w.titleProto, w.mapProto)]
    IN  Call(Scene_Title_createCommandWindow(
                Call(Scene_Base_createWindowLayer(w1), "createWindowLayer")),
             "Scene_Title.createCommandWindow")

createCommandWindow(w) ==
    LET w1 == [w EXCEPT !.mapProto = CopyCommands(w.titleProto, w.mapProto)]
    IN  Call(Scene_Title_createCommandWindow(
                Call(Scene_Base_createWindowLayer(w1), "createWindowLayer")),
             "Scene_Title.createCommandWindow")

\* create without its last call.
create_NoSetupNewGame(w) ==
    LET w1 == Call(w, "Scene_Base.create")
        w2 == Call(DataManager_loadMapData(w1, MapIdOf(w1.parameters.mapId)),
                   "DataManager.loadMapData")
        w3 == createCommandWindow(Call(w2, "createCommandWindow"))
    IN  Call(Scene_removeChild(w3, w3.win.windowLayer), "removeChild")

create(w) ==
    LET w1 == Call(w, "Scene_Base.create")
        w2 == Call(DataManager_loadMapData(w1, MapIdOf(w1.parameters.mapId)),
                   "DataManager.loadMapData")
        w3 == createCommandWindow(Call(w2, "createCommandWindow"))
        w4 == Call(Scene_removeChild(w3, w3.win.windowLayer), "removeChild")
    IN  Call(DataManager_setupNewGame(w4), "DataManager.setupNewGame")

\* createAllWindows that only opens the command window.
createAllWindows_NoAddWindow(w) ==
    LET w1 == Call(Scene_Map_createAllWindows(w), "Scene_Map.createAllWindows")
    IN  Call([w1 EXCEPT !.win.commandOpen = TRUE], "commandWindow.open")

createAllWindows(w) ==
    LET w1 == Call(Scene_Map_createAllWindows(w), "Scene_Map.createAllWindows")
        w2 == Call(Scene_Base_addWindow(w1, "command"), "addWindow")
    IN  Call([w2 EXCEPT !.win.commandOpen = TRUE], "commandWindow.open")

\* Scene_Map.prototype.onMapLoaded, on the title-map scene: this._transfer
\* is only ever set by Scene_Map.prototype.create; createDisplayObjects
\* makes the window layer and calls this.createAllWindows().
Scene_Map_onMapLoaded(w) ==
    LET w1 == IF w.win.transfer
              THEN Call([Game_Map_setup(w, w.gamePlayer._newMapId)
                            EXCEPT !.gamePlayer._transferring = FALSE],
                        "Game_Player.performTransfer")
              ELSE w
        w2 == Call(Scene_Base_createWindowLayer(w1), "createWindowLayer")
    IN  createAllWindows(Call(w2, "createAllWindows"))

\* onMapLoaded without line 139.
onMapLoaded_KeepsAutoplayBgm(w) ==
    LET w1 == Call(Game_Map_setup(w, MapIdOf(w.parameters.mapId)), "Game_Map.setup")
        w3 == Call(Game_Map_autoplay(w1), "Game_Map.autoplay")
        w4 == Call(Game_Player_center(w3, w3.dataMap.width, w3.dataMap.height),
                   "Game_Player.center")
        w5 == Scene_Map_onMapLoaded(Call(w4, "Scene_Map.onMapLoaded"))
    IN  Call(w5, "Scene_Title.createForeground")

onMapLoaded(w) ==
    LET w1 == Call(Game_Map_setup(w, MapIdOf(w.parameters.mapId)), "Game_Map.setup")
        w2 == [w1 EXCEPT !.dataMap.autoplayBgm = FALSE]
        w3 == Call(Game_Map_autoplay(w2), "Game_Map.autoplay")
        \* center(width / 2, height / 2), in half tiles
        w4 == Call(Game_Player_center(w3, w3.dataMap.width, w3.dataMap.height),
                   "Game_Player.center")
        w5 == Scene_Map_onMapLoaded(Call(w4, "Scene_Map.onMapLoaded"))
    IN  Call(w5, "Scene_Title.createForeground")

\* start without playTitleMusic.
start_NoTitleMusic(w) == Call(Scene_Map_start(w), "Scene_Map.start")

start(w) ==
    LET w1 == Call(Scene_Map_start(w), "Scene_Map.start")
    IN  Call(Scene_Title_playTitleMusic(w1), "Scene_Title.playTitleMusic")

fadeOutAll(w) ==
    LET w1 == Call([w EXCEPT !.audio = [bgm |-> "", bgs |-> ""]], "AudioManager.fadeOut")
    IN  Call([w1 EXCEPT !.win.fading = TRUE], "startFadeOut")

(***************************************************************************)
(* Event commands the map interpreter can run in a frame.                  *)
(***************************************************************************)
NoCommand == [code |-> "none", id |-> 0, value |-> 0]

EventCommands ==
    {NoCommand}
    \cup {[code |-> "controlSwitch", id |-> i, value |-> v] : i \in SwitchIds, v \in {0, 1}}
    \cup {[code |-> "controlVariable", id |-> i, value |-> v] : i \in VariableIds, v \in 0..MaxValue}
    \cup {[code |-> "transferPlayer", id |-> m, value |-> 0] : m \in MapIds}
    \cup {[code |-> "changeWeather", id |-> 1, value |-> d] : d \in {0, 1}}
    \cup {[code |-> "changeWeather", id |-> 0, value |-> 0],
          [code |-> "scrollMap", id |-> 0, value |-> 1]}
    \cup {[code |-> c, id |-> 0, value |-> 0] :
            c \in {"openMenu", "battleProcessing", "returnToTitle"}}

SceneControlCommands == {"openMenu", "battleProcessing", "returnToTitle"}

\* Game_Interpreter: one command.
Game_Interpreter_executeCommand(w, c) ==
    LET w1 == [w EXCEPT !.eventCommand = c.code]
    IN  CASE c.code = "controlSwitch" -> [w1 EXCEPT !.gameSwitches[c.id] = (c.value = 1)]
          [] c.code = "controlVariable" -> [w1 EXCEPT !.gameVariables[c.id] = c.value]
          [] c.code = "transferPlayer" -> Game_Player_reserveTransfer(w1, c.id)
          [] c.code = "changeWeather" ->
                Game_Screen_changeWeather(w1, IF c.id = 1 THEN "rain" ELSE "none", 9, c.value)
          [] c.code = "scrollMap" -> Game_Map_scrollRight(w1, 2 * c.value)
          [] c.code = "openMenu" -> SceneManager_push(w1, "Scene_Menu")
          [] c.code = "battleProcessing" -> SceneManager_push(w1, "Scene_Battle")
          [] c.code = "returnToTitle" -> SceneManager_goto(w1, "Scene_Title")
          [] OTHER -> w1

\* Game_Map.update(sceneActive): the interpreter runs only when active.
Game_Map_update(w, active, c) ==
    IF active THEN Game_Interpreter_executeCommand(w, c) ELSE w

\* Scene_Map.prototype.update of the engine: the map, the player, the
\* screen, and then updateScene, which starts a reserved transfer.
Scene_Map_update(w, c) ==
    LET w1 == Call(Game_Map_update(Call(w, "Scene_Base.update"), TRUE, c), "Game_Map.update")
        w2 == Call(Game_Screen_update(w1), "Game_Screen.update")
        w3 == IF w2.nextScene = "none" /\ w2.gamePlayer._transferring
              THEN Call(SceneManager_goto(w2, "Scene_Map"), "updateTransferPlayer")
              ELSE w2
    IN  Call(w3, "updateWaitCount")

\* update as super.update() would run it.
update_CallsSuper(w, c) == Scene_Map_update(Call(w, "Scene_Map.update"), c)

update(w, c) ==
    LET w1 == Call(Game_Map_update(w, TRUE, c), "Game_Map.update")
        w2 == Call(Game_Screen_update(w1), "Game_Screen.update")
        w3 == Call(w2, "updateWaitCount")
    IN  Call(w3, "Scene_Base.update")

(***************************************************************************)
(* resetWeather, freezeCamera and the patched handlers (lines 180-203)     *)
(***************************************************************************)
resetWeather(w) == Call(Game_Screen_changeWeather(w, "none", 0, 0), "Game_Screen.changeWeather")

\* Scene_Title.prototype.commandNewGame of the engine, on the title-map
\* scene: this.fadeOutAll is the scene's own.
Scene_Title_commandNewGame(w) ==
    LET w1 == Call(DataManager_setupNewGame(w), "DataManager.setupNewGame")
        w2 == Call([w1 EXCEPT !.win.commandOpen = FALSE], "commandWindow.close")
        w3 == fadeOutAll(Call(w2, "fadeOutAll"))
    IN  Call(SceneManager_goto(w3, "Scene_Map"), "SceneManager.goto")

\* The actions freezeCamera can be given: the bound new-game command, an
\* action that leaves the map alone, one that moves the camera of the map
\* in place, and one that puts a fresh map with another camera in $gameMap.
SetCamera(m, cam) ==
    [m EXCEPT !._displayX = cam[1], !._displayY = cam[2],
              !._parallaxX = cam[3], !._parallaxY = cam[4]]

RunAction(w, a) ==
    LET w1 == Call(w, "action")
    IN  CASE a.kind = "newGame" -> Scene_Title_commandNewGame(w1)
          [] a.kind = "keep"    -> w1
          [] a.kind = "mutate"  -> [w1 EXCEPT !.objs[w1.gameMap] = SetCamera(@, a.cam)]
          [] a.kind = "replace" ->
                LET r == NewRef(w1)
                IN  [w1 EXCEPT !.gameMap = r, !.objs[r] = SetCamera(NewGameMap, a.cam)]

NewGameAction == [kind |-> "newGame", cam |-> <<0, 0, 0, 0>>]

CameraProperties == <<"_displayX", "_displayY", "_parallaxX", "_parallaxY">>

\* for (const property of [...]) $gameMap[property] = previousMap[property]
RECURSIVE CopyProperties(_, _, _)
CopyProperties(w, previousMap, props) ==
    IF props = <<>> THEN w
    ELSE CopyProperties(
            [w EXCEPT !.objs[w.gameMap][Head(props)] = w.objs[previousMap][Head(props)]],
            previousMap, Tail(props))

\* freezeCamera without the copy loop.
freezeCamera_ActionOnly(w, a) == RunAction(w, a)

freezeCamera(w, a) ==
    LET previousMap == w.gameMap
    IN  CopyProperties(RunAction(w, a), previousMap, CameraProperties)

\* Scene_Title_old.prototype.commandNewGame as the plugin replaces it.
commandNewGame(w) == freezeCamera(w, NewGameAction)

\* Scene_Load.prototype.onLoadSuccess of the engine.
Scene_Load_onLoadSuccess(w) ==
    LET w1 == Call([w EXCEPT !.audio = [bgm |-> "", bgs |-> ""]], "fadeOutAll")
        w2 == Call(SceneManager_goto(w1, "Scene_Map"), "SceneManager.goto")
    IN  [w2 EXCEPT !.audio.bgm = w.savefile.bgm]

\* onLoadSuccess without resetWeather.
onLoadSuccess_NoReset(w) ==
    Scene_Load_onLoadSuccess(Call(w, "Scene_Load_onLoadSuccess"))

onLoadSuccess(w) ==
    resetWeather(Scene_Load_onLoadSuccess(Call(w, "Scene_Load_onLoadSuccess")))

(***************************************************************************)
(* The rest of the engine, as far as the title map meets it: the scene     *)
(* manager, the map scene of a running game, saving and loading.           *)
(***************************************************************************)
SceneManager_changeScene(w) ==
    [w EXCEPT !.scene = w.nextScene, !.nextScene = "none", !.win = NewScene,
              !.savefile = NoSavefile,
              !.phase = IF w.nextScene \in {"Scene_Title", "Scene_Map"} THEN "new" ELSE "started"]

SceneManager_pop(w) ==
    [w EXCEPT !.nextScene = w.sceneStack[Len(w.sceneStack)],
              !.sceneStack = SubSeq(@, 1, Len(@) - 1)]

\* Scene_Map of the engine from create to start: a reserved transfer is
\* performed, the map it leads to is set up and its music played.
Scene_Map_enter(w) ==
    LET p  == w.gamePlayer
        w1 == IF p._transferring
              THEN LET a == DataManager_loadMapData(w, p._newMapId)
                       b == IF p._newMapId # a.objs[a.gameMap]._mapId
                            THEN Game_Map_setup(a, p._newMapId) ELSE a
                       c == Game_Player_center([b EXCEPT !.gamePlayer._transferring = FALSE], 0, 0)
                   IN  Game_Map_autoplay(Call(c, "Game_Player.performTransfer"))
              ELSE IF w.objs[w.gameMap]._mapId \in MapIds
                   THEN DataManager_loadMapData(w, w.objs[w.gameMap]._mapId)
                   ELSE w
    IN  Scene_Map_start([w1 EXCEPT !.win.transfer = p._transferring])

\* DataManager.loadGame when it succeeds: the game objects are those of the file.
DataManager_extractSaveContents(w, file) ==
    LET r == NewRef(w)
    IN  [w EXCEPT !.savefile = file, !.gameMap = r, !.objs[r] = file.map,
                  !.gameSwitches = file.switches, !.gameVariables = file.variables,
                  !.gameScreen = file.screen, !.gamePlayer = file.player]

\* The plugin's top-level function (lines 91-204).
pluginLoad(w) ==
    [w EXCEPT !.parameters = [mapId |-> EffectiveMapId(w.pluginParams)],
              !.mapProto = ClassProto,
              !.titleProto = SetProperty(@, N_commandNewGame, "N_TitleMap.commandNewGame")]

\* The command window's "newGame" handler: the function bound when the
\* window was made.
CallNewGameHandler(w) ==
    CASE w.win.newGameHandler = "N_TitleMap.commandNewGame" -> commandNewGame(w)
      [] w.win.newGameHandler = "Scene_Title.commandNewGame" ->
            Scene_Title_commandNewGame(w)
      [] OTHER -> w

\* Scene_Title.prototype.commandContinue of the engine
Scene_Title_commandContinue(w) ==
    LET w1 == Call([w EXCEPT !.win.commandOpen = FALSE], "commandWindow.close")
    IN  Call(SceneManager_push(w1, "Scene_Load"), "SceneManager.push")

(***************************************************************************)
(* Actions                                                                 *)
(***************************************************************************)
OnTitleMap == scene = "Scene_Title"

PluginLoad ==
    /\ phase = "boot"
    /\ Commit([SceneManager_goto(pluginLoad(Enter(World, "pluginLoad")), "Scene_Title")
                  EXCEPT !.phase = "started", !.scene = "Scene_Boot"])

ChangeScene ==
    /\ phase = "started" /\ nextScene # "none"
    /\ Commit(SceneManager_changeScene(Enter(World, "SceneManager.changeScene")))

Create ==
    /\ OnTitleMap /\ phase = "new"
    /\ Commit([create(Enter(World, "create")) EXCEPT !.phase = "created"])

OnMapLoaded ==
    /\ OnTitleMap /\ phase = "created"
    /\ Commit([onMapLoaded(Enter(World, "onMapLoaded")) EXCEPT !.phase = "mapLoaded"])

Start ==
    /\ OnTitleMap /\ phase = "mapLoaded"
    /\ Commit([start(Enter(World, "start")) EXCEPT !.phase = "started"])

\* A frame of the title map.  The engine changes scene before the next
\* frame unless the scene is fading out, and a Game_Map that was never set
\* up has no events to run.
Update ==
    /\ OnTitleMap /\ phase = "started"
    /\ nextScene = "none" \/ win.fading
    /\ \E c \in (IF objs[gameMap]._mapId = 0 THEN {NoCommand} ELSE EventCommands) :
          Commit(update(Enter(World, "update"), c))

CommandNewGame ==
    /\ OnTitleMap /\ phase = "started" /\ win.commandOpen /\ nextScene = "none"
    /\ Commit(CallNewGameHandler(Enter(World, "commandNewGame")))

CommandContinue ==
    /\ OnTitleMap /\ phase = "started" /\ win.commandOpen /\ nextScene = "none"
    /\ Commit(Scene_Title_commandContinue(Enter(World, "commandContinue")))

MapSceneStart ==
    /\ scene = "Scene_Map" /\ phase = "new"
    /\ Commit([Scene_Map_enter(Enter(World, "Scene_Map.start")) EXCEPT !.phase = "started"])

GamePlay ==
    /\ scene = "Scene_Map" /\ phase = "started" /\ nextScene = "none"
    /\ \E c \in EventCommands : Commit(Scene_Map_update(Enter(World, "Scene_Map.update"), c))

ExecuteLoad ==
    /\ scene = "Scene_Load" /\ phase = "started" /\ nextScene = "none"
    /\ \/ \E file \in Savefiles :
            Commit([DataManager_extractSaveContents(Enter(World, "DataManager.loadGame"), file)
                        EXCEPT !.phase = "loadOk"])
       \/ Commit([Enter(World, "DataManager.loadGame") EXCEPT !.phase = "loadFailed"])

OnLoadSuccess ==
    /\ scene = "Scene_Load" /\ phase = "loadOk"
    /\ Commit([onLoadSuccess(Enter(World, "onLoadSuccess")) EXCEPT !.phase = "started"])

OnLoadFailure ==
    /\ scene = "Scene_Load" /\ phase = "loadFailed"
    /\ Commit([Call(Enter(World, "onLoadFailure"), "SoundManager.playBuzzer")
                  EXCEPT !.phase = "started"])

PopScene ==
    /\ scene \in {"Scene_Load", "Scene_Menu", "Scene_Battle"}
    /\ phase = "started" /\ nextScene = "none" /\ sceneStack # <<>>
    /\ Commit(SceneManager_pop(Enter(World, "SceneManager.pop")))

(***************************************************************************)
(* The scene model: the engine boots with a valid map id configured and    *)
(* with any of the other plugins' properties on Scene_Title.prototype.     *)
(***************************************************************************)
ValidParams == {JsUndefined, JsString(<<"2">>)}

InitWith(params, extras) ==
    /\ pluginParams \in params
    /\ parameters = [mapId |-> pluginParams]
    /\ titleProto \in {HostTitleProto(extra) : extra \in extras}
    /\ mapProto = NoProto
    /\ scene = "none" /\ phase = "boot" /\ nextScene = "none" /\ sceneStack = <<>>
    /\ win = NewScene
    /\ gameMap = 1 /\ objs = [r \in Refs |-> NewGameMap]
    /\ gameSwitches = NewGameSwitches /\ gameVariables = NewGameVariables
    /\ gameScreen = NewGameScreen /\ gamePlayer = NewGamePlayer
    /\ dataMap = NoDataMap
    /\ audio = [bgm |-> "", bgs |-> ""]
    /\ savefile = NoSavefile
    /\ handler = "none" /\ calls = <<>> /\ eventCommand = "none"

Init == InitWith(ValidParams, {{}})

Next ==
    \/ PluginLoad \/ ChangeScene \/ Create \/ OnMapLoaded \/ Start \/ Update
    \/ CommandNewGame \/ CommandContinue \/ MapSceneStart \/ GamePlay
    \/ ExecuteLoad \/ OnLoadSuccess \/ OnLoadFailure \/ PopScene

Spec == Init /\ [][Next]_vars

\* The parameter model: any text as the mapId parameter, and the plugin loads.
InitParam == InitWith(AllParams, {{}})

NextParam == PluginLoad

SpecParam == InitParam /\ [][NextParam]_vars

\* The prototype model: plugins placed before this one have added any of
\* their properties to Scene_Title.prototype, and the title map is created,
\* started and left by New Game.
InitProto == InitWith(ValidParams, SUBSET OtherPluginProperties)

NextProto == PluginLoad \/ ChangeScene \/ Create \/ OnMapLoaded \/ Start \/ CommandNewGame

SpecProto == InitProto /\ [][NextProto]_vars

\* The freezeCamera model: the title map runs with any camera, and
\* freezeCamera is called once with any action.
Cameras == {<<a, b, c, d>> : a \in 0..MaxCamera, b \in 0..MaxCamera,
                             c \in 0..MaxCamera, d \in 0..MaxCamera}

FreezeActions ==
    {NewGameAction}
    \cup {[kind |-> k, cam |-> cam] : k \in {"keep", "mutate", "replace"}, cam \in Cameras}

InitFreeze ==
    /\ pluginParams = JsUndefined
    /\ parameters = [mapId |-> EffectiveMapId(pluginParams)]
    /\ titleProto = SetProperty(HostTitleProto({}), N_commandNewGame, "N_TitleMap.commandNewGame")
    /\ mapProto = CopyCommands(titleProto, ClassProto)
    /\ scene = "Scene_Title" /\ phase = "started" /\ nextScene = "none" /\ sceneStack = <<>>
    /\ win = [children |-> {2}, windowLayer |-> 2, layersMade |-> 2,
              layerWindows |-> [l \in Layers |-> IF l = 2 THEN {"mapName", "message", "command"} ELSE {}],
              commandOpen |-> TRUE, newGameHandler |-> "N_TitleMap.commandNewGame",
              transfer |-> FALSE, fading |-> FALSE]
    /\ gameMap = 1
    /\ \E cam \in Cameras :
          objs = [r \in Refs |-> IF r = 1 THEN SetCamera([NewGameMap EXCEPT !._mapId = 1], cam)
                                 ELSE NewGameMap]
    /\ gameSwitches = NewGameSwitches /\ gameVariables = NewGameVariables
    /\ gameScreen = NewGameScreen
    /\ gamePlayer = [_transferring |-> TRUE, _newMapId |-> DataSystem.startMapId]
    /\ dataMap = [DataMapFiles[1] EXCEPT !.autoplayBgm = FALSE]
    /\ audio = [bgm |-> DataSystem.titleBgm, bgs |-> ""]
    /\ savefile = NoSavefile
    /\ handler = "start" /\ calls = <<>> /\ eventCommand = "none"

FreezeCamera ==
    /\ handler = "start"
    /\ \E a \in FreezeActions : Commit(freezeCamera(Enter(World, "freezeCamera"), a))

NextFreeze == FreezeCamera

SpecFreeze == InitFreeze /\ [][NextFreeze]_vars

(***************************************************************************)
(* Properties                                                              *)
(***************************************************************************)
Camera(m) == <<m._displayX, m._displayY, m._parallaxX, m._parallaxY>>

CallsOf(name) == {i \in 1..Len(calls) : calls[i] = name}

Before(a, b) == \E i \in CallsOf(a) : \E j \in CallsOf(b) : i < j

ConfiguredMap == DataMapFiles[MapIdOf(parameters.mapId)]

\* C1: when New Game is selected on the title map and the new-game action
\* puts a fresh map object in $gameMap, the four camera fields of $gameMap
\* after the handler are those $gameMap had before it.
C1_NewGameKeepsCamera ==
    [][(OnTitleMap /\ handler' = "commandNewGame" /\ gameMap' # gameMap)
          => Camera(objs'[gameMap']) = Camera(objs[gameMap])]_vars

\* C1 witness: New Game has run, $gameMap is the fresh map of the new game,
\* and its camera is not the camera a fresh map has.
C1_Witness ==
    /\ OnTitleMap /\ handler = "commandNewGame"
    /\ CallsOf("DataManager.setupNewGame") # {}
    /\ objs[gameMap]._mapId = 0
    /\ Camera(objs[gameMap]) # Camera(NewGameMap)

\* C2: for every action (one that replaces $gameMap, one that leaves it, one
\* that changes the camera fields of the map in place), freezeCamera runs
\* the action exactly once and leaves the four camera fields of $gameMap at
\* the values they had before the action.
C2_FreezeCameraAnyAction ==
    [][handler' = "freezeCamera"
          => /\ Cardinality({i \in 1..Len(calls') : calls'[i] = "action"}) = 1
             /\ Camera(objs'[gameMap']) = Camera(objs[gameMap])]_vars

\* C3: when onLoadSuccess has run, the engine's onLoadSuccess ran first and
\* the weather is "none" with power 0 and duration 0, whatever the save
\* carried; a load that fails leaves the weather as it was.
C3_LoadClearsWeather ==
    /\ [](handler = "onLoadSuccess"
            => /\ gameScreen._weatherType = "none"
               /\ gameScreen._weatherPower = 0
               /\ gameScreen._weatherDuration = 0
               /\ Before("Scene_Load_onLoadSuccess", "Game_Screen.changeWeather"))
    /\ [][(handler' = "onLoadFailure" \/ phase' = "loadFailed")
            => gameScreen' = gameScreen]_vars

\* C3 witness: a save that carried rain has been loaded and onLoadSuccess has run.
C3_Witness ==
    /\ handler = "onLoadSuccess"
    /\ savefile.exists /\ savefile.screen._weatherType = "rain"
    /\ savefile.screen._weatherDuration > 0

\* C4: the effective map id is a positive integer for every value of the
\* mapId plugin parameter, and is 1 when the parameter is missing, empty,
\* zero or not a number.
C4_MapIdPositiveInteger ==
    phase # "boot" =>
        /\ IsPositiveInteger(parameters.mapId)
        /\ (\/ pluginParams.type = "undefined"
            \/ Number(pluginParams).nan
            \/ Number(pluginParams).num = 0) => parameters.mapId = JsInt(1)

\* C5: whenever the title-map scene has been created, and until its first
\* frame, create has called DataManager.setupNewGame, every switch is off,
\* every variable is 0, and no save has been loaded by it.
C5_CreateResetsGameState ==
    (OnTitleMap /\ handler \in {"create", "onMapLoaded", "start"})
        => /\ \A i \in SwitchIds : ~gameSwitches[i]
           /\ \A i \in VariableIds : gameVariables[i] = 0
           /\ savefile = NoSavefile
           /\ handler = "create" =>
                 /\ CallsOf("DataManager.setupNewGame") # {}
                 /\ CallsOf("DataManager.loadGame") = {}

\* C5 witness: the title-map scene has been created again after a game ran
\* on map 1 (its music is still the one playing).
C5_Witness ==
    /\ OnTitleMap /\ handler = "create"
    /\ audio.bgm = DataMapFiles[1].bgm

\* C6 (as stated): when onMapLoaded has run, the map is set up at the
\* configured id, the configured map's autoplay background music has been
\* started in place of the title music, and the player was centred on
\* (width / 2, height / 2) before the map scene's own onMapLoaded ran.
C6_AutoplayBgmForced ==
    (OnTitleMap /\ handler = "onMapLoaded")
        => /\ objs[gameMap]._mapId = MapIdOf(parameters.mapId)
           /\ ConfiguredMap.autoplayBgm => audio.bgm = ConfiguredMap.bgm
           /\ Before("Game_Map.setup", "Game_Map.autoplay")
           /\ Before("Game_Player.center", "Scene_Map.onMapLoaded")

\* The display position that centres (width / 2, height / 2), in half tiles.
CentredCamera ==
    LET x == Clamp(ConfiguredMap.width - (ScreenTileX - 1), 0,
                   2 * (ConfiguredMap.width - ScreenTileX))
        y == Clamp(ConfiguredMap.height - (ScreenTileY - 1), 0,
                   2 * (ConfiguredMap.height - ScreenTileY))
    IN  <<x, y, x, y>>

\* C6 (amended): when onMapLoaded has run, the map is set up at the
\* configured id, the autoplayBgm flag of the loaded map data is off and no
\* background music was started (the one requested before is still the one
\* requested), an autoplay BGS of the map was started, and the player was
\* centred on (width / 2, height / 2) before the map scene's own
\* onMapLoaded ran.
C6_AutoplayBgmSuppressed ==
    /\ []((OnTitleMap /\ handler = "onMapLoaded")
            => /\ objs[gameMap]._mapId = MapIdOf(parameters.mapId)
               /\ ~dataMap.autoplayBgm
               /\ ConfiguredMap.autoplayBgs => audio.bgs = ConfiguredMap.bgs
               /\ Camera(objs[gameMap]) = CentredCamera
               /\ Before("Game_Map.setup", "Game_Map.autoplay")
               /\ Before("Game_Map.autoplay", "Game_Player.center")
               /\ Before("Game_Player.center", "Scene_Map.onMapLoaded"))
    /\ [][(OnTitleMap /\ handler' = "onMapLoaded") => audio'.bgm = audio.bgm]_vars

\* C6 witness: onMapLoaded has run on a configured map that declares
\* autoplay background music, and that music is not the one requested.
C6_Witness ==
    /\ OnTitleMap /\ handler = "onMapLoaded"
    /\ ConfiguredMap.autoplayBgm
    /\ audio.bgm # ConfiguredMap.bgm
    /\ Camera(objs[gameMap]) # Camera(NewGameMap)

\* C7: when start has run on the title map, the map scene's start ran
\* first, then the title scene's playTitleMusic, and the background music
\* requested last is the title music, whatever the configured map declares.
C7_StartPlaysTitleMusic ==
    (OnTitleMap /\ handler = "start")
        => /\ calls = <<"Scene_Map.start", "Scene_Title.playTitleMusic">>
           /\ audio.bgm = DataSystem.titleBgm
           /\ objs[gameMap]._mapId = MapIdOf(parameters.mapId)

\* C7 witness: start has run on a configured map that declares autoplay
\* background music.
C7_Witness ==
    /\ OnTitleMap /\ handler = "start"
    /\ ConfiguredMap.autoplayBgm /\ ConfiguredMap.bgm # DataSystem.titleBgm

\* C8: once the command window has been created, every own enumerable
\* property of the old title prototype whose name starts with "command" is
\* on the title-map prototype with the same function (commandNewGame with
\* the plugin's wrapper), and every other property of the title-map
\* prototype is the class's own.
C8_CommandsCopied ==
    LET command == <<"c", "o", "m", "m", "a", "n", "d">>
        isCommand(n) == Len(n) >= Len(command) /\ \A i \in 1..Len(command) : n[i] = command[i]
    IN  (OnTitleMap /\ phase \in {"created", "mapLoaded", "started"})
          => /\ \A n \in DOMAIN titleProto.fn :
                  (n \in titleProto.enum /\ isCommand(n))
                      => n \in DOMAIN mapProto.fn /\ mapProto.fn[n] = titleProto.fn[n]
             /\ mapProto.fn[N_commandNewGame] = "N_TitleMap.commandNewGame"
             /\ win.newGameHandler = "N_TitleMap.commandNewGame"
             /\ \A n \in DOMAIN mapProto.fn :
                  ~isCommand(n) => n \in DOMAIN ClassProto.fn /\ mapProto.fn[n] = ClassProto.fn[n]
             /\ \A n \in DOMAIN mapProto.fn :
                  isCommand(n) => n \in ObjectKeys(titleProto)

\* C8 witness: the command window has been created with another plugin's
\* command copied, and with a property that is not enumerable and one that
\* lacks the prefix left behind.
C8_Witness ==
    /\ OnTitleMap /\ phase = "created"
    /\ N_commandCredits \in DOMAIN mapProto.fn
    /\ N_commandHidden \in DOMAIN titleProto.fn /\ N_commandHidden \notin DOMAIN mapProto.fn
    /\ N_createCommandCredits \in DOMAIN titleProto.fn
    /\ N_comm \in DOMAIN titleProto.fn

UpdateCalls == <<"Game_Map.update", "Game_Screen.update", "updateWaitCount", "Scene_Base.update">>

MapSceneLayer == win.layersMade

\* C10 (as stated): create loads the map data, then builds the command
\* window on a new window layer, then removes that layer from the scene;
\* the map scene's own window layer is suppressed in favour of the command
\* window's, and once createAllWindows has run the command window is on
\* the scene's current window layer, which is a child of the scene, and on
\* no other layer, and it has been opened.
C10_MapSceneLayerSuppressed ==
    /\ (OnTitleMap /\ handler = "create")
          => /\ Before("DataManager.loadMapData", "createCommandWindow")
             /\ Before("createCommandWindow", "removeChild")
    /\ (OnTitleMap /\ phase \in {"mapLoaded", "started"})
          => /\ MapSceneLayer \notin win.children
             /\ win.windowLayer \in win.children
             /\ {l \in Layers : "command" \in win.layerWindows[l]} = {win.windowLayer}

\* C10 (amended): create loads the map data, then builds the command window
\* on a new window layer, then removes that layer from the scene; it is
\* that first layer that stays removed, and the map scene's own layer, made
\* later, that is kept: once createAllWindows has run, the command window
\* is on the scene's current window layer, which is the map scene's and a
\* child of the scene, and on no other layer, and it has been opened.
C10_CommandWindowOnCurrentLayer ==
    /\ (OnTitleMap /\ handler = "create")
          => /\ Before("DataManager.loadMapData", "createCommandWindow")
             /\ Before("createCommandWindow", "createWindowLayer")
             /\ Before("createWindowLayer", "Scene_Title.createCommandWindow")
             /\ Before("Scene_Title.createCommandWindow", "removeChild")
             /\ win.windowLayer \notin win.children
             /\ "command" \in win.layerWindows[win.windowLayer]
    /\ (OnTitleMap /\ phase \in {"mapLoaded", "started"})
          => /\ win.windowLayer = MapSceneLayer
             /\ win.children = {MapSceneLayer}
             /\ {l \in Layers : "command" \in win.layerWindows[l]} = {win.windowLayer}
             /\ handler = "onMapLoaded" =>
                   /\ win.commandOpen
                   /\ Before("createAllWindows", "addWindow")
                   /\ Before("addWindow", "commandWindow.open")

\* C10 witness: createAllWindows has run; the layer create made is no child
\* of the scene and the command window is on the second layer.
C10_Witness ==
    /\ OnTitleMap /\ handler = "onMapLoaded"
    /\ win.layersMade = 2 /\ win.windowLayer = 2
    /\ 1 \notin win.children
    /\ "command" \in win.layerWindows[2]

====
